---- MODULE Spec2Model ----
(***************************************************************************)
(* Verification model of the coursework scripts                            *)
(*   src/q2/index.py  one-dimensional random walks                         *)
(*   src/q3/index.py  three-mass coupled spring system                     *)
(* src/q1/index.py (Monte Carlo integration) is not modelled: what is said *)
(* of it is statistical.                                                   *)
(* Python arrays are modelled as functions over 0..len-1 so that the       *)
(* indices of the model are the indices of the source.                     *)
(***************************************************************************)
EXTENDS Integers, Sequences, FiniteSets, TLC

VARIABLES
    pc,                     \* position in the script being run
    log,                    \* events of the run, in order (history)
    \* ---- src/q2/index.py
    N_values_part1,         \* line 22
    return_probabilities,   \* line 23
    N_values_part2,         \* line 42
    meeting_probabilities,  \* line 43
    i,                      \* module-level loop index (enumerate / range)
    N,                      \* current number of steps of the sweep
    sim,                    \* the inner loop's counter "_"
    returns,                \* line 26
    final_position,         \* line 28
    finals,                 \* final positions of the walks of the current N (history)
    meetings,               \* line 46
    person1_positions,      \* line 48
    person2_positions,      \* line 49
    \* ---- simulate_random_walk called on its own
    initial_position,       \* argument
    num_steps,              \* argument
    positions,              \* returned trajectory (q2), positions array (q3)
    \* ---- src/q3/index.py
    frequencies,            \* line 183
    eigenvectors,           \* line 183
    mode_index,             \* argument of simulate_motion_euler / animate_normal_mode
    duration,               \* argument
    dt,                     \* argument
    caller,                 \* the function simulate_motion_euler returns to
    omega,                  \* line 48
    normal_mode,            \* line 49
    t,                      \* lines 51, 198
    velocities,             \* line 54
    i_euler,                \* the loop index i of the two Euler loops
    state,                  \* line 200
    t_full,                 \* line 225
    state_full              \* line 225

vars == <<pc, log, N_values_part1, return_probabilities, N_values_part2,
          meeting_probabilities, i, N, sim, returns, final_position, finals,
          meetings, person1_positions, person2_positions,
          initial_position, num_steps, positions,
          frequencies, eigenvectors, mode_index, duration, dt, caller, omega,
          normal_mode, t, velocities, i_euler, state, t_full, state_full>>

q2vars == <<N_values_part1, return_probabilities, N_values_part2,
            meeting_probabilities, i, N, sim, returns, final_position, finals,
            meetings, person1_positions, person2_positions>>

q2sweep == <<N_values_part1, return_probabilities, N_values_part2,
             meeting_probabilities, N, sim, returns, final_position, finals,
             meetings, person1_positions, person2_positions>>

walkvars == <<initial_position, num_steps, positions>>

walkargs == <<initial_position, num_steps>>

q3vars == <<frequencies, eigenvectors, mode_index, duration, dt, caller, omega,
            normal_mode, t, velocities, i_euler, state, t_full, state_full>>

modes == <<frequencies, eigenvectors>>

callargs == <<mode_index, duration, dt, caller>>

motion == <<omega, normal_mode, t, velocities, i_euler, positions>>

full == <<state, t_full, state_full>>

(***************************************************************************)
(* Bounds of the model (the script's own sizes are far beyond enumeration) *)
(***************************************************************************)
\* num_simulations is 10000 in the script (src/q2/index.py:7)
num_simulations == 1
\* the return sweep is arange(1, 101) in the script; here arange(1, SweepStop)
SweepStop == 6
\* the meeting sweep is arange(100, 1001, 50) in the script; here
\* arange(MeetStart, MeetStop, MeetStride)
MeetStart == 6
MeetStop == 9
MeetStride == 2
\* euler_method_full_system on its own: duration in 0..MaxDuration, and a
\* step dt = CoarseDt / 100 that does not divide the duration
MaxDuration == 2
CoarseDt == 30
\* simulate_random_walk on its own: num_steps in 0..MaxSteps
MaxSteps == 4
\* simulate_random_walk on its own: initial positions -MaxStart..MaxStart
MaxStart == 2

(***************************************************************************)
(* Program constants                                                       *)
(***************************************************************************)
a == -2
b == 12

(***************************************************************************)
(* numpy helpers                                                           *)
(***************************************************************************)
\* np.arange(start, stop, step) for step > 0, as an array indexed from 0
arange(start, stop, step) ==
    LET len == IF stop > start THEN ((stop - start) + (step - 1)) \div step ELSE 0
    IN  [j \in 0..(len - 1) |-> start + j * step]

\* np.zeros(n)
zeros(n) == [j \in 0..(n - 1) |-> 0]

\* len(array)
Len0(arr) == Cardinality(DOMAIN arr)

\* Python's index: a negative index counts from the end
PyIndex(idx, len) == IF idx < 0 THEN len + idx ELSE idx

\* An event of the run: a computation that begins, a computation that has
\* finished, or a print, plot or file save together with the computation whose
\* values it shows
Begin(what) == [kind |-> "begin", what |-> what, uses |-> ""]
Compute(what) == [kind |-> "compute", what |-> what, uses |-> ""]
Report(what, uses) == [kind |-> "report", what |-> what, uses |-> uses]

\* x / y for integers x, y: the exact quotient, kept as a fraction
Fraction(x, y) == [num |-> x, den |-> y]
Zero == Fraction(0, 1)

(***************************************************************************)
(* simulate_random_walk                                                    *)
(***************************************************************************)
\* np.random.choice([-1, 1], size=num_steps): every array of +1/-1 steps
StepChoices(n) == [0..(n - 1) -> {-1, 1}]

InitPositionsNoStart(start, n) == zeros(n + 1)

\* positions = np.zeros(num_steps + 1); positions[0] = initial_position
InitPositions(start, n) == [zeros(n + 1) EXCEPT ![0] = start]

RECURSIVE WalkLoop(_, _, _, _, _)
\* for i in range(num_steps): position += steps[i]; positions[i + 1] = position
WalkLoop(pos, position, steps, idx, n) ==
    IF idx >= n
    THEN pos
    ELSE WalkLoop([pos EXCEPT ![idx + 1] = position + steps[idx]],
                  position + steps[idx], steps, idx + 1, n)

simulate_random_walk(start, n, steps) ==
    WalkLoop(InitPositions(start, n), start, steps, 0, n)

\* positions[-1]
LastOf(arr) == arr[PyIndex(-1, Len0(arr))]

\* The variables of src/q3/index.py while another script runs
InitQ3Idle ==
    /\ frequencies = <<>> /\ eigenvectors = <<>>
    /\ mode_index = 0 /\ duration = 0 /\ dt = 0 /\ caller = ""
    /\ omega = 0 /\ normal_mode = <<>> /\ t = <<>> /\ velocities = <<>>
    /\ i_euler = 0 /\ state = <<>> /\ t_full = <<>> /\ state_full = <<>>

(***************************************************************************)
(* simulate_random_walk on its own: the arguments are drawn by Init        *)
(***************************************************************************)
InitWalk ==
    /\ pc = "walk_call"
    /\ log = <<>>
    /\ N_values_part1 = <<>> /\ return_probabilities = <<>>
    /\ N_values_part2 = <<>> /\ meeting_probabilities = <<>>
    /\ i = -1 /\ N = 0 /\ sim = 0 /\ returns = 0 /\ final_position = 0
    /\ finals = <<>> /\ meetings = 0
    /\ person1_positions = <<>> /\ person2_positions = <<>>
    /\ initial_position \in (-MaxStart)..MaxStart
    /\ num_steps \in 0..MaxSteps
    /\ positions = <<>>
    /\ InitQ3Idle

SimulateRandomWalk ==
    /\ pc = "walk_call"
    /\ \E steps \in StepChoices(num_steps) :
          positions' = simulate_random_walk(initial_position, num_steps, steps)
    /\ pc' = "walk_returned"
    /\ UNCHANGED <<log, q2vars, initial_position, num_steps, q3vars>>

NextWalk == SimulateRandomWalk

SpecWalk == InitWalk /\ [][NextWalk]_vars

(***************************************************************************)
(* src/q2/index.py, lines 22-40: the return-probability sweep              *)
(***************************************************************************)
CountReturnAtStart(r, final) == IF final = a THEN r + 1 ELSE r

CountReturnNotAbove(r, final) == IF final <= 0 THEN r + 1 ELSE r

\* if final_position == 0: returns += 1
CountReturn(r, final) == IF final = 0 THEN r + 1 ELSE r

InitQ2 ==
    /\ log = <<>>
    /\ N_values_part1 = <<>> /\ return_probabilities = <<>>
    /\ N_values_part2 = <<>> /\ meeting_probabilities = <<>>
    /\ i = -1 /\ N = 0 /\ sim = 0 /\ returns = 0 /\ final_position = 0
    /\ finals = <<>> /\ meetings = 0
    /\ person1_positions = <<>> /\ person2_positions = <<>>
    /\ initial_position = 0 /\ num_steps = 0 /\ positions = <<>>
    /\ InitQ3Idle

InitReturn == InitQ2 /\ pc = "part1_setup"

\* lines 22-23
Part1Setup ==
    /\ pc = "part1_setup"
    /\ N_values_part1' = arange(1, SweepStop, 1)
    /\ return_probabilities' = [j \in 0..(SweepStop - 2) |-> Zero]
    /\ i' = -1
    /\ pc' = "return_loop"
    /\ UNCHANGED <<log, N_values_part2, meeting_probabilities, N, sim, returns,
                   final_position, finals, meetings, person1_positions,
                   person2_positions, walkvars, q3vars>>

\* lines 25-26: the next N of the sweep
ReturnLoopNext ==
    /\ pc = "return_loop"
    /\ i + 1 < Len0(N_values_part1)
    /\ i' = i + 1
    /\ N' = N_values_part1[i + 1]
    /\ returns' = 0
    /\ sim' = 0
    /\ finals' = <<>>
    /\ pc' = "return_sim"
    /\ UNCHANGED <<log, N_values_part1, return_probabilities, N_values_part2,
                   meeting_probabilities, final_position, meetings,
                   person1_positions, person2_positions, walkvars, q3vars>>

\* lines 27-30: one simulated walk
ReturnSimulation ==
    /\ pc = "return_sim"
    /\ sim < num_simulations
    /\ \E steps \in StepChoices(N) :
          /\ final_position' = LastOf(simulate_random_walk(a, N, steps))
          /\ returns' = CountReturn(returns, final_position')
          /\ finals' = Append(finals, final_position')
    /\ sim' = sim + 1
    /\ UNCHANGED <<pc, log, N_values_part1, return_probabilities, N_values_part2,
                   meeting_probabilities, i, N, meetings, person1_positions,
                   person2_positions, walkvars, q3vars>>

\* line 32
ReturnStore ==
    /\ pc = "return_sim"
    /\ sim >= num_simulations
    /\ return_probabilities' =
          [return_probabilities EXCEPT ![i] = Fraction(returns, num_simulations)]
    /\ pc' = "return_loop"
    /\ UNCHANGED <<log, N_values_part1, N_values_part2, meeting_probabilities,
                   i, N, sim, returns, final_position, finals, meetings,
                   person1_positions, person2_positions, walkvars, q3vars>>

\* lines 34-40: the sweep is over, the curve is plotted and saved
PlotReturn ==
    /\ pc = "return_loop"
    /\ i + 1 >= Len0(N_values_part1)
    /\ log' = Append(log, Report("return_probability.png", "return_probabilities"))
    /\ pc' = "part2_setup"
    /\ UNCHANGED <<q2vars, walkvars, q3vars>>

NextReturn ==
    \/ Part1Setup
    \/ ReturnLoopNext
    \/ ReturnSimulation
    \/ ReturnStore
    \/ PlotReturn

SpecReturn == InitReturn /\ [][NextReturn]_vars

\* The degenerate sweep: the same loop run over arange(0, SweepStop)
InitDegenerate ==
    /\ pc = "return_loop"
    /\ log = <<>>
    /\ N_values_part1 = arange(0, SweepStop, 1)
    /\ return_probabilities = [j \in 0..(SweepStop - 1) |-> Zero]
    /\ N_values_part2 = <<>> /\ meeting_probabilities = <<>>
    /\ i = -1 /\ N = 0 /\ sim = 0 /\ returns = 0 /\ final_position = 0
    /\ finals = <<>> /\ meetings = 0
    /\ person1_positions = <<>> /\ person2_positions = <<>>
    /\ initial_position = 0 /\ num_steps = 0 /\ positions = <<>>
    /\ InitQ3Idle

NextDegenerate ==
    \/ ReturnLoopNext
    \/ ReturnSimulation
    \/ ReturnStore
    \/ PlotReturn

SpecDegenerate == InitDegenerate /\ [][NextDegenerate]_vars

(***************************************************************************)
(* src/q2/index.py, lines 42-62: the meeting-probability sweep             *)
(***************************************************************************)
\* if person1_positions[-1] == person2_positions[-1]: meetings += 1
CountMeeting(m, p1, p2) == IF LastOf(p1) = LastOf(p2) THEN m + 1 ELSE m

\* The state at line 42. Part 2 reads nothing that part 1 computed.
InitMeet == InitQ2 /\ pc = "part2_setup"

\* lines 42-43
Part2Setup ==
    /\ pc = "part2_setup"
    /\ N_values_part2' = arange(MeetStart, MeetStop, MeetStride)
    /\ meeting_probabilities' =
          [j \in DOMAIN arange(MeetStart, MeetStop, MeetStride) |-> Zero]
    /\ i' = -1
    /\ pc' = "meet_loop"
    /\ UNCHANGED <<log, N_values_part1, return_probabilities, N, sim, returns,
                   final_position, finals, meetings, person1_positions,
                   person2_positions, walkvars, q3vars>>

\* lines 45-46: the next N of the sweep
MeetingLoopNext ==
    /\ pc = "meet_loop"
    /\ i + 1 < Len0(N_values_part2)
    /\ i' = i + 1
    /\ N' = N_values_part2[i + 1]
    /\ meetings' = 0
    /\ sim' = 0
    /\ pc' = "meet_person1"
    /\ UNCHANGED <<log, N_values_part1, return_probabilities, N_values_part2,
                   meeting_probabilities, returns, final_position, finals,
                   person1_positions, person2_positions, walkvars, q3vars>>

\* line 47: another pair, or the end of the inner loop
\* line 48
SimulatePerson1 ==
    /\ pc = "meet_person1"
    /\ sim < num_simulations
    /\ \E steps \in StepChoices(N) :
          person1_positions' = simulate_random_walk(a, N, steps)
    /\ pc' = "meet_person2"
    /\ UNCHANGED <<log, N_values_part1, return_probabilities, N_values_part2,
                   meeting_probabilities, i, N, sim, returns, final_position,
                   finals, meetings, person2_positions, walkvars, q3vars>>

\* line 49
SimulatePerson2 ==
    /\ pc = "meet_person2"
    /\ \E steps \in StepChoices(N) :
          person2_positions' = simulate_random_walk(b, N, steps)
    /\ pc' = "meet_compare"
    /\ UNCHANGED <<log, N_values_part1, return_probabilities, N_values_part2,
                   meeting_probabilities, i, N, sim, returns, final_position,
                   finals, meetings, person1_positions, walkvars, q3vars>>

\* lines 51-52
CompareMeeting ==
    /\ pc = "meet_compare"
    /\ meetings' = CountMeeting(meetings, person1_positions, person2_positions)
    /\ sim' = sim + 1
    /\ pc' = "meet_person1"
    /\ UNCHANGED <<log, N_values_part1, return_probabilities, N_values_part2,
                   meeting_probabilities, i, N, returns, final_position, finals,
                   person1_positions, person2_positions, walkvars, q3vars>>

\* line 54
MeetingStore ==
    /\ pc = "meet_person1"
    /\ sim >= num_simulations
    /\ meeting_probabilities' =
          [meeting_probabilities EXCEPT ![i] = Fraction(meetings, num_simulations)]
    /\ pc' = "meet_loop"
    /\ UNCHANGED <<log, N_values_part1, return_probabilities, N_values_part2,
                   i, N, sim, returns, final_position, finals, meetings,
                   person1_positions, person2_positions, walkvars, q3vars>>

\* lines 56-62: the sweep is over, the curve is plotted and saved
PlotMeeting ==
    /\ pc = "meet_loop"
    /\ i + 1 >= Len0(N_values_part2)
    /\ log' = Append(log, Report("meeting_probability.png", "meeting_probabilities"))
    /\ pc' = "examples"
    /\ UNCHANGED <<q2vars, walkvars, q3vars>>

NextMeet ==
    \/ Part2Setup
    \/ MeetingLoopNext
    \/ SimulatePerson1
    \/ SimulatePerson2
    \/ CompareMeeting
    \/ MeetingStore
    \/ PlotMeeting

SpecMeet == InitMeet /\ [][NextMeet]_vars

\* The two walks are at the same position at some shared time step 0..N
MetAtSomeStep(p1, p2) ==
    \E step \in DOMAIN p1 : step \in DOMAIN p2 /\ p1[step] = p2[step]

(***************************************************************************)
(* src/q3/index.py: the three-mass spring system                           *)
(*                                                                         *)
(* The script computes in float64. The model keeps every real number as an *)
(* integer count of a fixed unit: displacements and velocities in units of *)
(* 1/UNIT, eigenvalues (squared angular frequencies) and times in units of *)
(* 1/CENTI, angular frequencies in units of 1/MILLI. A product or quotient *)
(* is rounded to the nearest unit.                                         *)
(***************************************************************************)
UNIT == 10000
MILLI == 1000
CENTI == 100

k == 3
m == 1

\* duration=10, dt=0.01 (lines 46, 197); dt=0.05 (line 92), dt in 1/CENTI
DefaultDuration == 10
DefaultDt == 1
AnimationDt == 5

\* x / y rounded to the nearest integer, y > 0
RoundDiv(x, y) == (2 * x + y) \div (2 * y)

Sgn(x) == IF x > 0 THEN 1 ELSE IF x < 0 THEN -1 ELSE 0

\* np.sqrt, rounded down
ISqrt(n) == CHOOSE r \in 0..n : r * r <= n /\ (r + 1) * (r + 1) > n

Vec3(x, y, z) == [c \in 0..2 |-> IF c = 0 THEN x ELSE IF c = 1 THEN y ELSE z]

\* M = np.eye(3)
M == [r \in 0..2 |-> [c \in 0..2 |-> IF r = c THEN 1 ELSE 0]]

K_FreeEnds ==
    [r \in 0..2 |->
        IF r = 0 THEN Vec3(k, -k, 0)
        ELSE IF r = 1 THEN Vec3(-k, 2 * k, -k)
        ELSE Vec3(0, -k, k)]

\* K = np.array([[2*k, -k, 0], [-k, 2*k, -k], [0, -k, 2*k]])
K ==
    [r \in 0..2 |->
        IF r = 0 THEN Vec3(2 * k, -k, 0)
        ELSE IF r = 1 THEN Vec3(-k, 2 * k, -k)
        ELSE Vec3(0, -k, 2 * k)]

Det3(A) ==
      A[0][0] * (A[1][1] * A[2][2] - A[1][2] * A[2][1])
    - A[0][1] * (A[1][0] * A[2][2] - A[1][2] * A[2][0])
    + A[0][2] * (A[1][0] * A[2][1] - A[1][1] * A[2][0])

\* K - lambda M for lambda = L / CENTI, times CENTI
Pencil(Kmat, Mmat, L) ==
    [r \in 0..2 |-> [c \in 0..2 |-> CENTI * Kmat[r][c] - L * Mmat[r][c]]]

\* det(K - lambda M) at lambda = L / CENTI, times CENTI^3
CharPoly(Kmat, Mmat, L) == Det3(Pencil(Kmat, Mmat, L))

\* Every eigenvalue of a symmetric matrix lies in a Gershgorin disc
RowRadius(Kmat, r) ==
    LET AbsV(x) == IF x < 0 THEN -x ELSE x
    IN  AbsV(Kmat[r][(r + 1) % 3]) + AbsV(Kmat[r][(r + 2) % 3])
EigenLow(Kmat) ==
    CHOOSE lo \in {Kmat[r][r] - RowRadius(Kmat, r) : r \in 0..2} :
        \A r \in 0..2 : lo <= Kmat[r][r] - RowRadius(Kmat, r)
EigenHigh(Kmat) ==
    CHOOSE hi \in {Kmat[r][r] + RowRadius(Kmat, r) : r \in 0..2} :
        \A r \in 0..2 : hi >= Kmat[r][r] + RowRadius(Kmat, r)

\* The eigenvalues of eigh(K, M), each rounded down to a multiple of 1/CENTI:
\* the L at which det(K - lambda M) is zero or changes sign before L + 1
EigenFloors(Kmat, Mmat) ==
    {L \in (CENTI * EigenLow(Kmat))..(CENTI * EigenHigh(Kmat)) :
        \/ CharPoly(Kmat, Mmat, L) = 0
        \/ Sgn(CharPoly(Kmat, Mmat, L)) * Sgn(CharPoly(Kmat, Mmat, L + 1)) = -1}

\* eigh returns the eigenvalues in ascending order
Ascending(S) ==
    CHOOSE f \in [0..(Cardinality(S) - 1) -> S] :
        \A x, y \in DOMAIN f : x < y => f[x] < f[y]

Cross(u, v) ==
    Vec3(u[1] * v[2] - u[2] * v[1],
         u[2] * v[0] - u[0] * v[2],
         u[0] * v[1] - u[1] * v[0])

\* A vector of length 1 (UNIT) along u
Normalized(u) ==
    LET s == [c \in 0..2 |-> RoundDiv(u[c], CENTI)]
        len == ISqrt(s[0] * s[0] + s[1] * s[1] + s[2] * s[2])
    IN  [c \in 0..2 |-> RoundDiv(s[c] * UNIT, len)]

\* The unit eigenvector of eigenvalue L / CENTI: orthogonal to the rows of
\* K - lambda M. (eigh fixes its sign by a convention of its own.)
EigenVector(Kmat, Mmat, L) ==
    LET A == Pencil(Kmat, Mmat, L) IN Normalized(Cross(A[0], A[1]))

\* eigenvalues, eigenvectors = eigh(K, M); eigenvectors[:, j] belongs to
\* eigenvalues[j]
eigh_values(Kmat, Mmat) == Ascending(EigenFloors(Kmat, Mmat))
eigh_vectors(Kmat, Mmat) ==
    LET ev == eigh_values(Kmat, Mmat)
    IN  [r \in 0..2 |-> [j \in DOMAIN ev |-> EigenVector(Kmat, Mmat, ev[j])[r]]]

\* The squared angular frequencies analytical_solution obtains (line 23)
eigenvalues == eigh_values(K, M)

\* frequencies = np.sqrt(eigenvalues), in units of 1/MILLI
analytical_frequencies ==
    [j \in DOMAIN eigenvalues |-> ISqrt(eigenvalues[j] * ((MILLI * MILLI) \div CENTI))]

analytical_eigenvectors == eigh_vectors(K, M)

\* eigenvectors[:, j]
Column(A, j) == [r \in DOMAIN A |-> A[r][j]]

\* t = np.arange(0, duration, dt), in units of 1/CENTI
TimeGrid(dur, step) == arange(0, CENTI * dur, step)

ScriptStartsAtPrint == "q3_print"

\* The first statement the script runs: line 183
ScriptStart == "q3_start"

InitQ3 ==
    /\ pc = ScriptStart
    /\ log = <<>>
    /\ N_values_part1 = <<>> /\ return_probabilities = <<>>
    /\ N_values_part2 = <<>> /\ meeting_probabilities = <<>>
    /\ i = -1 /\ N = 0 /\ sim = 0 /\ returns = 0 /\ final_position = 0
    /\ finals = <<>> /\ meetings = 0
    /\ person1_positions = <<>> /\ person2_positions = <<>>
    /\ initial_position = 0 /\ num_steps = 0 /\ positions = <<>>
    /\ InitQ3Idle

\* line 183
AnalyticalSolution ==
    /\ pc = "q3_start"
    /\ frequencies' = analytical_frequencies
    /\ eigenvectors' = analytical_eigenvectors
    /\ log' = Append(log, Compute("analytical_solution"))
    /\ pc' = "q3_print"
    /\ UNCHANGED <<q2vars, walkargs, callargs, motion, full>>

\* lines 184-188
PrintSolution ==
    /\ pc = "q3_print"
    /\ i' = 2
    /\ log' = Append(log, Report("print", "analytical_solution"))
    /\ pc' = "plot_normal_modes"
    /\ UNCHANGED <<q2sweep, walkargs, modes, callargs, motion, full>>

\* line 190, lines 30-43
PlotNormalModes ==
    /\ pc = "plot_normal_modes"
    /\ log' = Append(log, Report("normal_modes.png", "analytical_solution"))
    /\ pc' = "plot_trajectories"
    /\ UNCHANGED <<q2vars, walkargs, modes, callargs, motion, full>>

\* line 192, lines 70-73
PlotTrajectoriesBegin ==
    /\ pc = "plot_trajectories"
    /\ log' = Append(log, Compute("analytical_solution"))
    /\ mode_index' = 0
    /\ pc' = "traj_loop"
    /\ UNCHANGED <<q2vars, walkargs, modes, duration, dt, caller, motion, full>>

\* lines 75-76: t, positions = simulate_motion_euler(mode_index)
TrajectoryCall ==
    /\ pc = "traj_loop"
    /\ mode_index < 3
    /\ duration' = DefaultDuration
    /\ dt' = DefaultDt
    /\ caller' = "plot_trajectories"
    /\ pc' = "motion_call"
    /\ UNCHANGED <<log, q2vars, walkargs, modes, mode_index, motion, full>>

\* lines 47-58: the set-up of simulate_motion_euler
MotionEulerCall ==
    /\ pc = "motion_call"
    /\ LET n == Len0(TimeGrid(duration, dt)) IN
          /\ omega' = analytical_frequencies[mode_index]
          /\ normal_mode' = Column(analytical_eigenvectors, mode_index)
          /\ t' = TimeGrid(duration, dt)
          /\ positions' =
                [[j \in 0..(n - 1) |-> zeros(3)] EXCEPT ![0] = normal_mode']
          /\ velocities' = [j \in 0..(n - 1) |-> zeros(3)]
    /\ i_euler' = 1
    /\ log' = log \o <<Begin("simulate_motion_euler"), Compute("analytical_solution")>>
    /\ pc' = "motion_loop"
    /\ UNCHANGED <<q2vars, walkargs, modes, callargs, full>>

\* omega**2, in units of 1/CENTI
OmegaSquared == RoundDiv(omega * omega, (MILLI * MILLI) \div CENTI)

\* lines 60-65: one step of the single-mode Euler loop
MotionEulerStep ==
    /\ pc = "motion_loop"
    /\ i_euler < Len0(t)
    /\ LET prev == PyIndex(i_euler - 1, Len0(t))
           accelerations ==
               [c \in 0..2 |-> -RoundDiv(OmegaSquared * positions[prev][c], CENTI)]
       IN  /\ positions' =
                 [positions EXCEPT ![i_euler] =
                     [c \in 0..2 |->
                         positions[prev][c] + RoundDiv(velocities[prev][c] * dt, CENTI)]]
           /\ velocities' =
                 [velocities EXCEPT ![i_euler] =
                     [c \in 0..2 |->
                         velocities[prev][c] + RoundDiv(accelerations[c] * dt, CENTI)]]
    /\ i_euler' = i_euler + 1
    /\ UNCHANGED <<pc, log, q2vars, walkargs, modes, callargs, omega, normal_mode,
                   t, full>>

\* line 67: return t, positions
MotionEulerReturn ==
    /\ pc = "motion_loop"
    /\ i_euler >= Len0(t)
    /\ log' = Append(log, Compute("simulate_motion_euler"))
    /\ pc' = IF caller = "plot_trajectories" THEN "traj_plot" ELSE "anim_save"
    /\ UNCHANGED <<q2vars, walkargs, modes, callargs, motion, full>>

\* lines 78-86: the curves of one mode
TrajectoryPlot ==
    /\ pc = "traj_plot"
    /\ log' = Append(log, Report("plot trajectory", "simulate_motion_euler"))
    /\ mode_index' = mode_index + 1
    /\ pc' = "traj_loop"
    /\ UNCHANGED <<q2vars, walkargs, modes, duration, dt, caller, motion, full>>

\* lines 88-89
TrajectorySave ==
    /\ pc = "traj_loop"
    /\ mode_index >= 3
    /\ log' = Append(log, Report("trajectories.png", "simulate_motion_euler"))
    /\ i' = -1
    /\ pc' = "animate_loop"
    /\ UNCHANGED <<q2sweep, walkargs, modes, callargs, motion, full>>

\* lines 194-195, 92: animate_normal_mode(i) calls simulate_motion_euler
AnimateCall ==
    /\ pc = "animate_loop"
    /\ i + 1 < 3
    /\ i' = i + 1
    /\ mode_index' = i + 1
    /\ duration' = DefaultDuration
    /\ dt' = AnimationDt
    /\ caller' = "animate_normal_mode"
    /\ pc' = "motion_call"
    /\ UNCHANGED <<log, q2sweep, walkargs, modes, motion, full>>

\* lines 94-181: the figure, analytical_solution (line 142), the saved GIF
AnimateSave ==
    /\ pc = "anim_save"
    /\ log' = log \o <<Compute("analytical_solution"),
                       Report("normal_mode.gif", "simulate_motion_euler")>>
    /\ pc' = "animate_loop"
    /\ UNCHANGED <<q2vars, walkargs, modes, callargs, motion, full>>

\* the animation loop is over; line 225 with the default arguments
AnimateDone ==
    /\ pc = "animate_loop"
    /\ i + 1 >= 3
    /\ duration' = DefaultDuration
    /\ dt' = DefaultDt
    /\ pc' = "full_call"
    /\ UNCHANGED <<log, q2vars, walkargs, modes, mode_index, caller, motion, full>>

\* state[0, 0] = 1.0: the first mass displaced by 1, everything else 0
InitialCondition == [c \in 0..5 |-> IF c = 0 THEN UNIT ELSE 0]

\* for i in range(1, len(t))
FirstLoopIndex == 1

FirstLoopIndexZero == 0 * DefaultDt

\* the index the loop of line 210 starts at
LoopStart == FirstLoopIndex

\* lines 198-208; state[0, 0] = 1.0 raises IndexError on an empty state
EulerFullCall ==
    /\ pc = "full_call"
    /\ LET n == Len0(TimeGrid(duration, dt)) IN
          /\ t' = TimeGrid(duration, dt)
          /\ state' = IF n = 0
                      THEN <<>>
                      ELSE [[j \in 0..(n - 1) |-> zeros(6)] EXCEPT ![0] = InitialCondition]
          /\ pc' = IF n = 0 THEN "IndexError" ELSE "full_loop"
    /\ i_euler' = LoopStart
    /\ log' = Append(log, Begin("euler_method_full_system"))
    /\ UNCHANGED <<q2vars, walkargs, modes, callargs, omega, normal_mode,
                   velocities, positions, t_full, state_full>>

\* lines 210-221: one step of the full-system Euler loop
EulerFullStep ==
    /\ pc = "full_loop"
    /\ i_euler < Len0(t)
    /\ LET prev == PyIndex(i_euler - 1, Len0(t))
           x == [c \in 0..2 |-> state[prev][c]]
           v == [c \in 0..2 |-> state[prev][c + 3]]
           acc == [r \in 0..2 |->
                     RoundDiv(-(K[r][0] * x[0] + K[r][1] * x[1] + K[r][2] * x[2]), m)]
           new_v == [c \in 0..2 |-> v[c] + RoundDiv(acc[c] * dt, CENTI)]
           new_x == [c \in 0..2 |-> x[c] + RoundDiv(v[c] * dt, CENTI)]
       IN  state' = [state EXCEPT ![i_euler] =
                        [c \in 0..5 |-> IF c < 3 THEN new_x[c] ELSE new_v[c - 3]]]
    /\ i_euler' = i_euler + 1
    /\ UNCHANGED <<pc, log, q2vars, walkargs, modes, callargs, omega, normal_mode,
                   t, velocities, positions, t_full, state_full>>

\* lines 223, 225: t_full, state_full = euler_method_full_system()
EulerFullReturn ==
    /\ pc = "full_loop"
    /\ i_euler >= Len0(t)
    /\ t_full' = t
    /\ state_full' = state
    /\ log' = Append(log, Compute("euler_method_full_system"))
    /\ pc' = "full_plot"
    /\ UNCHANGED <<q2vars, walkargs, modes, callargs, motion, state>>

\* lines 227-235
PlotFull ==
    /\ pc = "full_plot"
    /\ log' = Append(log, Report("full_system.png", "euler_method_full_system"))
    /\ pc' = "q3_done"
    /\ UNCHANGED <<q2vars, walkargs, modes, callargs, motion, full>>

NextQ3 ==
    \/ AnalyticalSolution
    \/ PrintSolution
    \/ PlotNormalModes
    \/ PlotTrajectoriesBegin
    \/ TrajectoryCall
    \/ MotionEulerCall
    \/ MotionEulerStep
    \/ MotionEulerReturn
    \/ TrajectoryPlot
    \/ TrajectorySave
    \/ AnimateCall
    \/ AnimateSave
    \/ AnimateDone
    \/ EulerFullCall
    \/ EulerFullStep
    \/ EulerFullReturn
    \/ PlotFull

SpecQ3 == InitQ3 /\ [][NextQ3]_vars

(***************************************************************************)
(* euler_method_full_system on its own: duration and dt are drawn by Init  *)
(***************************************************************************)
DtChoices == {DefaultDt, AnimationDt, CoarseDt}

InitFull ==
    /\ pc = "full_call"
    /\ log = <<>>
    /\ N_values_part1 = <<>> /\ return_probabilities = <<>>
    /\ N_values_part2 = <<>> /\ meeting_probabilities = <<>>
    /\ i = -1 /\ N = 0 /\ sim = 0 /\ returns = 0 /\ final_position = 0
    /\ finals = <<>> /\ meetings = 0
    /\ person1_positions = <<>> /\ person2_positions = <<>>
    /\ initial_position = 0 /\ num_steps = 0 /\ positions = <<>>
    /\ frequencies = <<>> /\ eigenvectors = <<>>
    /\ mode_index = 0 /\ caller = ""
    /\ duration \in 0..MaxDuration
    /\ dt \in DtChoices
    /\ omega = 0 /\ normal_mode = <<>> /\ t = <<>> /\ velocities = <<>>
    /\ i_euler = 0 /\ state = <<>> /\ t_full = <<>> /\ state_full = <<>>

NextFull ==
    \/ EulerFullCall
    \/ EulerFullStep
    \/ EulerFullReturn
    \/ PlotFull

SpecFull == InitFull /\ [][NextFull]_vars

(***************************************************************************)
(* Properties of the random-walk script                                    *)
(***************************************************************************)
Abs(x) == IF x < 0 THEN -x ELSE x

Odd(n) == n % 2 = 1

\* Number of the recorded walks of the current N that ended at position p
EndedAt(p) == Cardinality({j \in DOMAIN finals : finals[j] = p})

\* The probability for the current N has just been stored (line 32)
ReturnStored == pc = "return_loop" /\ i >= 0

C2_MeetingAtAnyStep ==
    [][/\ (pc = "meet_compare" /\ pc' # "meet_compare")
            => ((meetings' = meetings + 1)
                  <=> MetAtSomeStep(person1_positions, person2_positions))
       /\ (pc = "meet_person1" /\ pc' = "meet_loop")
            => meeting_probabilities'[i] = Fraction(meetings, num_simulations)
      ]_vars

\* C3: the trajectory returned by simulate_random_walk has num_steps + 1
\* entries, starts at the initial position, and moves by exactly 1 each step.
C3_Trajectory ==
    pc = "walk_returned" =>
        /\ DOMAIN positions = 0..num_steps
        /\ positions[0] = initial_position
        /\ \A j \in 0..(num_steps - 1) :
              Abs(positions[j + 1] - positions[j]) = 1

\* C3 witness: a returned walk of several steps from a non-zero start that
\* went both up and down
C3_Witness ==
    /\ pc = "walk_returned"
    /\ num_steps >= 3
    /\ initial_position # 0
    /\ positions[1] = initial_position + 1
    /\ positions[num_steps] < initial_position

\* C4: for every odd N of the sweep no walk is counted as a return, and the
\* probability recorded for that N is exactly 0.
C4_OddNeverReturns ==
    /\ (pc = "return_sim" /\ Odd(N)) => returns = 0
    /\ \A idx \in DOMAIN return_probabilities :
          Odd(N_values_part1[idx]) => return_probabilities[idx].num = 0

\* C4 witness: the probability of an odd N >= 3 has been stored, after an
\* even N at which a walk was counted
C4_Witness ==
    /\ ReturnStored
    /\ Odd(N) /\ N >= 3
    /\ \E idx \in 0..(i - 1) : return_probabilities[idx].num > 0

\* The probability of the zero-step walks has been stored
DegenerateStored == i > 0 \/ (i = 0 /\ pc = "return_loop")

Solved == \E e \in DOMAIN log : log[e] = Compute("analytical_solution")

\* frequencies[j] ** 2, in units of 1/CENTI
SquaredFrequency(j) ==
    RoundDiv(frequencies[j] * frequencies[j], (MILLI * MILLI) \div CENTI)

\* L / CENTI is within 1/CENTI of a root of det(K - lambda M)
NearRoot(L) ==
    \E R \in {L - 1, L} :
        \/ CharPoly(K, M, R) = 0
        \/ Sgn(CharPoly(K, M, R)) * Sgn(CharPoly(K, M, R + 1)) = -1

\* x is within tol of y
Within(x, y, tol) == x - y <= tol /\ y - x <= tol

\* C6, as stated: the three squared angular frequencies are approximately
\* 1.198, 3.0 and 5.802 (here: each to within 0.05).
C6_StatedValues ==
    Solved =>
        /\ Within(SquaredFrequency(0), 120, 5)
        /\ Within(SquaredFrequency(1), 300, 5)
        /\ Within(SquaredFrequency(2), 580, 5)

\* C6, amended: for k = 3 and m = 1 the three squared angular frequencies are,
\* in ascending order, approximately 1.76, 6.0 and 10.24 (to within 0.01);
\* each is a root of the characteristic polynomial of K and they sum to the
\* trace of K, 18 (to within 0.03).
C6_Eigenvalues ==
    Solved =>
        /\ DOMAIN frequencies = 0..2
        /\ Within(SquaredFrequency(0), 176, 1)
        /\ Within(SquaredFrequency(1), 600, 1)
        /\ Within(SquaredFrequency(2), 1024, 1)
        /\ SquaredFrequency(0) < SquaredFrequency(1)
        /\ SquaredFrequency(1) < SquaredFrequency(2)
        /\ \A j \in 0..2 : NearRoot(SquaredFrequency(j))
        /\ Within(SquaredFrequency(0) + SquaredFrequency(1) + SquaredFrequency(2),
                  CENTI * (K[0][0] + K[1][1] + K[2][2]), 3)

\* C6 witness: analytical_solution has run and its frequencies were printed
C6_Witness ==
    /\ pc = "plot_normal_modes"
    /\ DOMAIN frequencies = 0..2
    /\ frequencies[0] > 0
    /\ log[Len(log)].what = "print"

\* The full-system loop has started, or the function has returned
FullStarted == pc \in {"full_loop", "full_plot", "q3_done"}
FullReturned == pc \in {"full_plot", "q3_done"}

\* C8: row 0 of the state of euler_method_full_system is the initial
\* condition, displacements (1, 0, 0) and velocities (0, 0, 0), while the loop
\* runs and in the state returned, for every duration and dt.
C8_FirstRowKept ==
    /\ FullStarted => state[0] = InitialCondition
    /\ FullReturned => (state_full[0] = InitialCondition /\ t_full[0] = 0)

\* C8 witness: the function has returned after a loop that wrote other rows
C8_Witness ==
    /\ FullReturned
    /\ Len0(state_full) > 2
    /\ state_full[1] # InitialCondition
    /\ state_full[Len0(state_full) - 1][0] # UNIT
    /\ dt = CoarseDt

\* An Euler integration begins or finishes
IsIntegration(e) ==
    /\ e.kind \in {"begin", "compute"}
    /\ e.what \in {"simulate_motion_euler", "euler_method_full_system"}

====
